---- MODULE Spec2Model ----
(***************************************************************************)
(* Model of the Corrective-RAG pipeline of app/services/crag.py:           *)
(* CRAGService.evaluate_relevance, execute_crag, generate_answer_with_crag.*)
(* Scores, confidences and thresholds are floats in the code; they are     *)
(* modelled in hundredths (0.45 is 45), so that < is the same comparison.  *)
(***************************************************************************)
EXTENDS Integers, Sequences, FiniteSets, TLC

VARIABLES
    settings,            \* Settings as returned by get_settings()
    query_chunks,        \* retrieved_chunks argument of execute_crag
    pc,                  \* position of the one query in the pipeline
    llm_response,        \* what llm.generate_with_json / json.loads produced
    eval_return,         \* which return statement of evaluate_relevance ran
    evaluation,          \* local `evaluation` of execute_crag (optional)
    web_results,         \* local `web_results` of execute_crag (optional list)
    used_web_search,     \* local `used_web_search` of execute_crag
    search_calls,        \* every web_search.search call: its bound and outcome
    crag_result,         \* the CRAGResult returned by execute_crag (optional)
    prompt_context,      \* context_parts joined into the synthesis prompt
    generate_calls,      \* every llm.generate call: its outcome and text
    answer,              \* return value of generate_answer_with_crag (optional)
    raised,              \* exception that reached the caller, "" when none
    grader_calls,        \* number of llm.generate_with_json calls
    queries,             \* the queries of a concurrent run, one record each
    top_k_arg,           \* top_k argument of retrieve (optional)
    vector_index,        \* what the vector store ranks for the query, best first
    retrieve_pc,         \* position of the retrieve call
    search_requests,     \* top_k of every vector_store.search call
    search_results,      \* what vector_store.search returned (optional)
    retrieved            \* return value of retrieve (optional)

\* one query through execute_crag and generate_answer_with_crag
pipeline_vars == <<query_chunks, pc, llm_response, eval_return, evaluation,
                   web_results, used_web_search, search_calls, crag_result,
                   prompt_context, generate_calls, answer, raised,
                   grader_calls>>

\* one call of RetrievalService.retrieve
retrieval_vars == <<top_k_arg, vector_index, retrieve_pc, search_requests,
                    search_results, retrieved>>

vars == <<settings, pipeline_vars, queries, retrieval_vars>>

----------------------------------------------------------------------------
(* Bounds of the model *)

MaxChunks == 2

MaxIndexed == 3

NumQueries == 2

\* Python None / a present value
None == << >>
Some(v) == <<v>>

SeqsUpTo(S, n) == UNION {[1..k -> S] : k \in 0..n}

----------------------------------------------------------------------------
(* Configuration: src/app/config.py *)

AmbiguousThresholds == {40, 50, 60}
RelevanceThresholds == {70, 80}

TopKValues == {2, 5}

Settings ==
    [crag_relevance_threshold : RelevanceThresholds,
     crag_ambiguous_threshold : AmbiguousThresholds,
     top_k_results : TopKValues]

\* literal max_results=3 of the web_search.search call
max_web_results == 3

----------------------------------------------------------------------------
(* Data *)

Labels == {"relevant", "ambiguous", "irrelevant"}

ChunkPool == {[content |-> "chunkA"], [content |-> "chunkB"]}

WebPool == {[title |-> "titleA", content |-> "webA"],
            [title |-> "titleB", content |-> "webB"]}

AnswerTexts == {"answer one", "answer two"}

\* a JSON value of the grader's object: a number or something else
JNum(n) == [t |-> "num", n |-> n]
JStr == [t |-> "str", n |-> 0]

GraderScores == {None} \cup {Some(JNum(n)) : n \in {20, 45, 50, 60, 92, 150}}
                       \cup {Some(JStr)}
GraderLabels == {None} \cup {Some(l) : l \in Labels \cup {"unknown"}}
GraderConfidences == {None} \cup {Some(JNum(n)) : n \in {90, 150}}

\* outcome of llm.generate_with_json followed by json.loads
GraderResponses ==
    {[kind |-> k, relevance_score |-> None, relevance_label |-> None,
      confidence |-> None] : k \in {"transport_error", "not_json", "json_array"}}
    \cup
    [kind : {"json_object"}, relevance_score : GraderScores,
     relevance_label : GraderLabels, confidence : GraderConfidences]

----------------------------------------------------------------------------
(* CRAGService.evaluate_relevance *)

\* dict.get(key, default)
DictGet(field, default) == IF field = None THEN default ELSE field[1]

\* mutant: the comparison with the threshold is not strict
NeedsWebSearch_Inclusive(relevance_label, relevance_score, threshold) ==
    \/ relevance_label = "irrelevant"
    \/ (relevance_label = "ambiguous" /\ relevance_score <= threshold)

\* mutant: an "ambiguous" label always asks for a web search
NeedsWebSearch_AllAmbiguous(relevance_label, relevance_score, threshold) ==
    \/ relevance_label = "irrelevant"
    \/ relevance_label = "ambiguous"

\* the routing rule, crag.py lines 61-64
NeedsWebSearch(relevance_label, relevance_score, threshold) ==
    \/ relevance_label = "irrelevant"
    \/ (relevance_label = "ambiguous" /\ relevance_score < threshold)

\* evaluating the rule raises TypeError when `<` meets a non-number; the
\* `or` / `and` short-circuit, so the score is only compared for "ambiguous"
RuleRaises(relevance_label, score) ==
    relevance_label = "ambiguous" /\ score.t # "num"

\* CRAGEvaluation(...) validates its fields (app.models): score and
\* confidence are numbers in [0.0, 1.0], the label is one of the three labels
CRAGEvaluationValid(score, relevance_label, conf) ==
    /\ score.t = "num" /\ score.n >= 0 /\ score.n <= 100
    /\ relevance_label \in Labels
    /\ conf.t = "num" /\ conf.n >= 0 /\ conf.n <= 100

\* mutant: the fallback does not ask for a web search
FallbackEvaluation_NoSearch ==
    [relevance_score |-> 50,
     relevance_label |-> "ambiguous",
     confidence |-> 50,
     evaluation_method |-> "llm_grader",
     needs_web_search |-> FALSE]

\* the except branch, crag.py lines 75-85
FallbackEvaluation ==
    [relevance_score |-> 50,
     relevance_label |-> "ambiguous",
     confidence |-> 50,
     evaluation_method |-> "llm_grader",
     needs_web_search |-> TRUE]

\* mutant: the rule is evaluated against crag_relevance_threshold
ParsedEvaluation_RelevanceThreshold(resp, cfg) ==
    LET relevance_score == DictGet(resp.relevance_score, JNum(50))
        relevance_label == DictGet(resp.relevance_label, "ambiguous")
        confidence == DictGet(resp.confidence, JNum(70))
    IN [relevance_score |-> relevance_score.n,
        relevance_label |-> relevance_label,
        confidence |-> confidence.n,
        evaluation_method |-> "llm_grader",
        needs_web_search |->
            NeedsWebSearch(relevance_label, relevance_score.n,
                           cfg.crag_relevance_threshold)]

\* mutant: a missing confidence takes the fallback's 0.5
ParsedEvaluation_ConfidenceDefault(resp, cfg) ==
    LET relevance_score == DictGet(resp.relevance_score, JNum(50))
        relevance_label == DictGet(resp.relevance_label, "ambiguous")
        confidence == DictGet(resp.confidence, JNum(50))
    IN [relevance_score |-> relevance_score.n,
        relevance_label |-> relevance_label,
        confidence |-> confidence.n,
        evaluation_method |-> "llm_grader",
        needs_web_search |->
            NeedsWebSearch(relevance_label, relevance_score.n,
                           cfg.crag_ambiguous_threshold)]

\* mutant: a "relevant" label scoring below crag_relevance_threshold is
\* downgraded and asks for a web search
ParsedEvaluation_DowngradeRelevant(resp, cfg) ==
    LET relevance_score == DictGet(resp.relevance_score, JNum(50))
        relevance_label == DictGet(resp.relevance_label, "ambiguous")
        confidence == DictGet(resp.confidence, JNum(70))
    IN [relevance_score |-> relevance_score.n,
        relevance_label |-> relevance_label,
        confidence |-> confidence.n,
        evaluation_method |-> "llm_grader",
        needs_web_search |->
            \/ NeedsWebSearch(relevance_label, relevance_score.n,
                              cfg.crag_ambiguous_threshold)
            \/ (relevance_label = "relevant"
                /\ relevance_score.n < cfg.crag_relevance_threshold)]

\* the try branch, crag.py lines 56-73
ParsedEvaluation(resp, cfg) ==
    LET relevance_score == DictGet(resp.relevance_score, JNum(50))
        relevance_label == DictGet(resp.relevance_label, "ambiguous")
        confidence == DictGet(resp.confidence, JNum(70))
    IN [relevance_score |-> relevance_score.n,
        relevance_label |-> relevance_label,
        confidence |-> confidence.n,
        evaluation_method |-> "llm_grader",
        needs_web_search |->
            NeedsWebSearch(relevance_label, relevance_score.n,
                           cfg.crag_ambiguous_threshold)]

\* mutant: the handler only covers the grader call and the JSON decoding, the
\* values of the object are returned as they came
TryRaises_DecodeOnly(resp) ==
    \/ resp.kind # "json_object"
    \/ RuleRaises(DictGet(resp.relevance_label, "ambiguous"),
                  DictGet(resp.relevance_score, JNum(50)))

\* TRUE when something inside the try block raises
TryRaises(resp) ==
    \/ resp.kind # "json_object"
    \/ RuleRaises(DictGet(resp.relevance_label, "ambiguous"),
                  DictGet(resp.relevance_score, JNum(50)))
    \/ ~CRAGEvaluationValid(DictGet(resp.relevance_score, JNum(50)),
                            DictGet(resp.relevance_label, "ambiguous"),
                            DictGet(resp.confidence, JNum(70)))

\* mutant: the fallback's needs_web_search is computed by the routing rule
evaluate_relevance_FallbackByRule(resp, cfg) ==
    IF TryRaises(resp)
    THEN [ret |-> "except",
          value |-> [FallbackEvaluation EXCEPT !.needs_web_search =
                        NeedsWebSearch("ambiguous", 50,
                                       cfg.crag_ambiguous_threshold)]]
    ELSE [ret |-> "try", value |-> ParsedEvaluation(resp, cfg)]

evaluate_relevance(resp, cfg) ==
    IF TryRaises(resp)
    THEN [ret |-> "except", value |-> FallbackEvaluation]
    ELSE [ret |-> "try", value |-> ParsedEvaluation(resp, cfg)]

----------------------------------------------------------------------------
(* CRAGService.generate_answer_with_crag: context assembly *)

Part(kind, i, title, content) ==
    [kind |-> kind, i |-> i, title |-> title, content |-> content]

\* `if crag_result.web_results:` is false for None and for the empty list
Truthy(opt) == opt # None /\ Len(opt[1]) > 0

WebOnlyParts(results) ==
    <<Part("header", 0, "", "=== Web Search Results ===")>> \o
    [i \in 1..Len(results) |->
        Part("Source", i, results[i].title, results[i].content)]

\* mutant: enumerate stops one chunk short
DocumentParts_LastDropped(chunks) ==
    <<Part("header", 0, "", "=== Retrieved Documents ===")>> \o
    [i \in 1..(Len(chunks) - 1) |-> Part("Document", i, "", chunks[i].content)]

DocumentParts(chunks) ==
    <<Part("header", 0, "", "=== Retrieved Documents ===")>> \o
    [i \in 1..Len(chunks) |-> Part("Document", i, "", chunks[i].content)]

AdditionalWebParts(results) ==
    <<Part("header", 0, "", "=== Additional Web Information ===")>> \o
    [i \in 1..Len(results) |-> Part("Web Source", i, "", results[i].content)]

\* mutant: an "irrelevant" result without web results falls back to chunks
BuildContext_ChunkFallback(res) ==
    IF res.evaluation.relevance_label = "irrelevant" /\ Truthy(res.web_results)
    THEN WebOnlyParts(res.web_results[1])
    ELSE DocumentParts(res.retrieved_chunks) \o
         (IF res.used_web_search /\ Truthy(res.web_results)
          THEN AdditionalWebParts(res.web_results[1])
          ELSE << >>)

\* context_parts, crag.py lines 123-140
BuildContext(res) ==
    IF res.evaluation.relevance_label = "irrelevant"
    THEN IF Truthy(res.web_results)
         THEN WebOnlyParts(res.web_results[1])
         ELSE << >>
    ELSE DocumentParts(res.retrieved_chunks) \o
         (IF res.used_web_search /\ Truthy(res.web_results)
          THEN AdditionalWebParts(res.web_results[1])
          ELSE << >>)

----------------------------------------------------------------------------
(* State machine of one query *)

\* no retrieve call is modelled in this run
RetrievalIdle ==
    /\ top_k_arg = None
    /\ vector_index = << >>
    /\ retrieve_pc = "idle"
    /\ search_requests = << >>
    /\ search_results = None
    /\ retrieved = None

Init ==
    /\ settings \in Settings
    /\ query_chunks \in SeqsUpTo(ChunkPool, MaxChunks)
    /\ pc = "RETRIEVED"
    /\ llm_response = None
    /\ eval_return = ""
    /\ evaluation = None
    /\ web_results = None
    /\ used_web_search = FALSE
    /\ search_calls = << >>
    /\ crag_result = None
    /\ prompt_context = << >>
    /\ generate_calls = << >>
    /\ answer = None
    /\ raised = ""
    /\ grader_calls = 0
    /\ queries = << >>
    /\ RetrievalIdle

\* execute_crag line 95: evaluate_relevance runs to its return
EvaluateRelevance ==
    /\ pc = "RETRIEVED"
    /\ \E resp \in GraderResponses :
          LET r == evaluate_relevance(resp, settings)
          IN /\ llm_response' = Some(resp)
             /\ eval_return' = r.ret
             /\ evaluation' = Some(r.value)
    /\ pc' = "EVALUATED"
    /\ grader_calls' = grader_calls + 1
    /\ UNCHANGED <<queries, retrieval_vars>>
    /\ UNCHANGED <<settings, query_chunks, web_results, used_web_search,
                   search_calls, crag_result, prompt_context, generate_calls,
                   answer, raised>>

\* mutant: the results are stored but used_web_search is left False
WebSearchReturns_FlagNotSet ==
    /\ pc = "EVALUATED"
    /\ evaluation[1].needs_web_search
    /\ \E results \in SeqsUpTo(WebPool, max_web_results) :
          web_results' = Some(results)
    /\ search_calls' = Append(search_calls, [max_results |-> max_web_results,
                                             outcome |-> "returned"])
    /\ used_web_search' = FALSE
    /\ pc' = "WEB_SEARCHED"
    /\ UNCHANGED <<queries, retrieval_vars, grader_calls>>
    /\ UNCHANGED <<settings, query_chunks, llm_response, eval_return,
                   evaluation, crag_result, prompt_context, generate_calls,
                   answer, raised>>

\* execute_crag lines 103-106, web_search.search returns a list
WebSearchReturns ==
    /\ pc = "EVALUATED"
    /\ evaluation[1].needs_web_search
    /\ \E results \in SeqsUpTo(WebPool, max_web_results) :
          web_results' = Some(results)
    /\ search_calls' = Append(search_calls, [max_results |-> max_web_results,
                                             outcome |-> "returned"])
    /\ used_web_search' = TRUE
    /\ pc' = "WEB_SEARCHED"
    /\ UNCHANGED <<queries, retrieval_vars, grader_calls>>
    /\ UNCHANGED <<settings, query_chunks, llm_response, eval_return,
                   evaluation, crag_result, prompt_context, generate_calls,
                   answer, raised>>

\* mutant: a failed search is swallowed and treated as "no web results"
WebSearchRaises_Degraded ==
    /\ pc = "EVALUATED"
    /\ evaluation[1].needs_web_search
    /\ search_calls' = Append(search_calls, [max_results |-> max_web_results,
                                             outcome |-> "raised"])
    /\ web_results' = Some(<< >>)
    /\ used_web_search' = TRUE
    /\ pc' = "WEB_SEARCHED"
    /\ UNCHANGED <<queries, retrieval_vars, grader_calls>>
    /\ UNCHANGED <<settings, query_chunks, llm_response, eval_return,
                   evaluation, crag_result, prompt_context, generate_calls,
                   answer, raised>>

\* mutant: a failed search is tried a second time
WebSearchRaises_Retried ==
    /\ pc = "EVALUATED"
    /\ evaluation[1].needs_web_search
    /\ search_calls' = search_calls \o
                         <<[max_results |-> max_web_results, outcome |-> "raised"],
                           [max_results |-> max_web_results, outcome |-> "raised"]>>
    /\ raised' = "web_search"
    /\ pc' = "RAISED"
    /\ UNCHANGED <<queries, retrieval_vars, grader_calls>>
    /\ UNCHANGED <<settings, query_chunks, llm_response, eval_return,
                   evaluation, web_results, used_web_search, crag_result,
                   prompt_context, generate_calls, answer>>

\* execute_crag line 105, web_search.search raises: nothing catches it
WebSearchRaises ==
    /\ pc = "EVALUATED"
    /\ evaluation[1].needs_web_search
    /\ search_calls' = Append(search_calls, [max_results |-> max_web_results,
                                             outcome |-> "raised"])
    /\ raised' = "web_search"
    /\ pc' = "RAISED"
    /\ UNCHANGED <<queries, retrieval_vars, grader_calls>>
    /\ UNCHANGED <<settings, query_chunks, llm_response, eval_return,
                   evaluation, web_results, used_web_search, crag_result,
                   prompt_context, generate_calls, answer>>

\* mutant: an "ambiguous" evaluation is searched whatever its score
SkipWebSearch_AmbiguousSearched ==
    /\ pc = "EVALUATED"
    /\ ~evaluation[1].needs_web_search
    /\ IF evaluation[1].relevance_label = "ambiguous"
       THEN /\ \E results \in SeqsUpTo(WebPool, max_web_results) :
                  web_results' = Some(results)
            /\ search_calls' = Append(search_calls,
                                      [max_results |-> max_web_results,
                                       outcome |-> "returned"])
            /\ used_web_search' = TRUE
            /\ pc' = "WEB_SEARCHED"
       ELSE /\ pc' = "SKIPPED"
            /\ UNCHANGED <<web_results, search_calls, used_web_search>>
    /\ UNCHANGED <<queries, retrieval_vars, grader_calls>>
    /\ UNCHANGED <<settings, query_chunks, llm_response, eval_return,
                   evaluation, crag_result, prompt_context, generate_calls,
                   answer, raised>>

\* execute_crag line 103, the condition is false
SkipWebSearch ==
    /\ pc = "EVALUATED"
    /\ ~evaluation[1].needs_web_search
    /\ pc' = "SKIPPED"
    /\ UNCHANGED <<queries, retrieval_vars, grader_calls>>
    /\ UNCHANGED <<settings, query_chunks, llm_response, eval_return,
                   evaluation, web_results, used_web_search, search_calls,
                   crag_result, prompt_context, generate_calls, answer,
                   raised>>

\* mutant: a skipped search sends the query back to the routing decision
ReturnResult_RoutesAgain ==
    /\ pc \in {"WEB_SEARCHED", "SKIPPED"}
    /\ IF pc = "SKIPPED"
       THEN pc' = "EVALUATED" /\ UNCHANGED crag_result
       ELSE /\ crag_result' = Some([used_web_search |-> used_web_search,
                                    evaluation |-> evaluation[1],
                                    retrieved_chunks |-> query_chunks,
                                    web_results |-> web_results])
            /\ pc' = "RESULT"
    /\ UNCHANGED <<queries, retrieval_vars, grader_calls>>
    /\ UNCHANGED <<settings, query_chunks, llm_response, eval_return,
                   evaluation, web_results, used_web_search, search_calls,
                   prompt_context, generate_calls, answer, raised>>

\* mutant: the chunks of an "irrelevant" evaluation are left out of the result
ReturnResult_IrrelevantDropped ==
    /\ pc \in {"WEB_SEARCHED", "SKIPPED"}
    /\ crag_result' = Some([used_web_search |-> used_web_search,
                            evaluation |-> evaluation[1],
                            retrieved_chunks |->
                                IF evaluation[1].relevance_label = "irrelevant"
                                THEN << >> ELSE query_chunks,
                            web_results |-> web_results])
    /\ pc' = "RESULT"
    /\ UNCHANGED <<queries, retrieval_vars, grader_calls>>
    /\ UNCHANGED <<settings, query_chunks, llm_response, eval_return,
                   evaluation, web_results, used_web_search, search_calls,
                   prompt_context, generate_calls, answer, raised>>

\* execute_crag lines 108-113
ReturnResult ==
    /\ pc \in {"WEB_SEARCHED", "SKIPPED"}
    /\ crag_result' = Some([used_web_search |-> used_web_search,
                            evaluation |-> evaluation[1],
                            retrieved_chunks |-> query_chunks,
                            web_results |-> web_results])
    /\ pc' = "RESULT"
    /\ UNCHANGED <<queries, retrieval_vars, grader_calls>>
    /\ UNCHANGED <<settings, query_chunks, llm_response, eval_return,
                   evaluation, web_results, used_web_search, search_calls,
                   prompt_context, generate_calls, answer, raised>>

\* generate_answer_with_crag, llm.generate returns text
GenerateAnswerReturns ==
    /\ pc = "RESULT"
    /\ prompt_context' = BuildContext(crag_result[1])
    /\ \E text \in AnswerTexts :
          /\ generate_calls' = Append(generate_calls, [outcome |-> "returned",
                                                        text |-> text])
          /\ answer' = Some(text)
    /\ pc' = "ANSWERED"
    /\ UNCHANGED <<queries, retrieval_vars, grader_calls>>
    /\ UNCHANGED <<settings, query_chunks, llm_response, eval_return,
                   evaluation, web_results, used_web_search, search_calls,
                   crag_result, raised>>

\* mutant: a failed completion is caught and an apology is returned
GenerateAnswerRaises_Caught ==
    /\ pc = "RESULT"
    /\ prompt_context' = BuildContext(crag_result[1])
    /\ generate_calls' = Append(generate_calls, [outcome |-> "raised",
                                                  text |-> ""])
    /\ answer' = Some("")
    /\ pc' = "ANSWERED"
    /\ UNCHANGED <<queries, retrieval_vars, grader_calls>>
    /\ UNCHANGED <<settings, query_chunks, llm_response, eval_return,
                   evaluation, web_results, used_web_search, search_calls,
                   crag_result, raised>>

\* generate_answer_with_crag, llm.generate raises: nothing catches it
GenerateAnswerRaises ==
    /\ pc = "RESULT"
    /\ prompt_context' = BuildContext(crag_result[1])
    /\ generate_calls' = Append(generate_calls, [outcome |-> "raised",
                                                  text |-> ""])
    /\ raised' = "llm_generate"
    /\ pc' = "RAISED"
    /\ UNCHANGED <<queries, retrieval_vars, grader_calls>>
    /\ UNCHANGED <<settings, query_chunks, llm_response, eval_return,
                   evaluation, web_results, used_web_search, search_calls,
                   crag_result, answer>>

Next ==
    \/ EvaluateRelevance
    \/ WebSearchReturns
    \/ WebSearchRaises
    \/ SkipWebSearch
    \/ ReturnResult
    \/ GenerateAnswerReturns
    \/ GenerateAnswerRaises

Spec == Init /\ [][Next]_vars

\* every statement of the straight-line code is eventually executed and
\* every collaborator call returns or fails
FairSpec == Spec /\ WF_vars(Next)

----------------------------------------------------------------------------
(* RetrievalService.retrieve: src/app/core/retrieval.py *)

\* what the vector store holds: content, metadata (accepted or rejected by
\* ChunkMetadata) and similarity score
IndexedPool ==
    {[content |-> "chunkA", metadata |-> "valid", score |-> 90],
     [content |-> "chunkB", metadata |-> "valid", score |-> 60],
     [content |-> "chunkC", metadata |-> "invalid", score |-> 30]}

TopKArgs == {None, Some(0), Some(1), Some(3)}

\* no query is in the pipeline in this run
PipelineIdle ==
    /\ query_chunks = << >>
    /\ pc = "RETRIEVED"
    /\ llm_response = None
    /\ eval_return = ""
    /\ evaluation = None
    /\ web_results = None
    /\ used_web_search = FALSE
    /\ search_calls = << >>
    /\ crag_result = None
    /\ prompt_context = << >>
    /\ generate_calls = << >>
    /\ answer = None
    /\ raised = ""
    /\ grader_calls = 0

\* mutant: `if not top_k` also replaces an explicit 0
ResolveTopK_Falsy(arg, cfg) ==
    IF arg = None \/ arg = Some(0) THEN cfg.top_k_results ELSE arg[1]

\* retrieval.py lines 21-22
ResolveTopK(arg, cfg) ==
    IF arg = None THEN cfg.top_k_results ELSE arg[1]

\* vector_store.search(query_vector, top_k): the top_k best of the index
VectorSearch(index, top_k) ==
    SubSeq(index, 1, IF top_k < Len(index) THEN top_k ELSE Len(index))

\* ChunkMetadata(**result["metadata"]) raises for one of the results
ConversionRaises(results) ==
    \E i \in 1..Len(results) : results[i].metadata = "invalid"

\* retrieval.py lines 34-41
ToRetrievedChunks(results) ==
    [i \in 1..Len(results) |->
        [content |-> results[i].content,
         metadata |-> results[i].metadata,
         score |-> results[i].score]]

RetrieveInit ==
    /\ settings \in Settings
    /\ PipelineIdle
    /\ queries = << >>
    /\ top_k_arg \in TopKArgs
    /\ vector_index \in SeqsUpTo(IndexedPool, MaxIndexed)
    /\ retrieve_pc = "called"
    /\ search_requests = << >>
    /\ search_results = None
    /\ retrieved = None

\* retrieval.py lines 21-31, the embedding and the search return
SearchVectorStore ==
    /\ retrieve_pc = "called"
    /\ LET top_k == ResolveTopK(top_k_arg, settings)
       IN /\ search_requests' = Append(search_requests, top_k)
          /\ search_results' = Some(VectorSearch(vector_index, top_k))
    /\ retrieve_pc' = "searched"
    /\ UNCHANGED <<settings, pipeline_vars, queries, top_k_arg, vector_index,
                   retrieved>>

\* retrieval.py line 25, embedding_service.embed_text raises
EmbedRaises ==
    /\ retrieve_pc = "called"
    /\ retrieve_pc' = "raised"
    /\ UNCHANGED <<settings, pipeline_vars, queries, top_k_arg, vector_index,
                   search_requests, search_results, retrieved>>

\* retrieval.py lines 34-44
ConvertResults ==
    /\ retrieve_pc = "searched"
    /\ IF ConversionRaises(search_results[1])
       THEN retrieve_pc' = "raised" /\ UNCHANGED retrieved
       ELSE /\ retrieved' = Some(ToRetrievedChunks(search_results[1]))
            /\ retrieve_pc' = "returned"
    /\ UNCHANGED <<settings, pipeline_vars, queries, top_k_arg, vector_index,
                   search_requests, search_results>>

RetrieveNext ==
    \/ SearchVectorStore
    \/ EmbedRaises
    \/ ConvertResults

RetrieveSpec == RetrieveInit /\ [][RetrieveNext]_vars

----------------------------------------------------------------------------
(* Several queries through one CRAGService, their steps interleaved.  The    *)
(* locals of each call are the fields of its record; the service holds only *)
(* settings, llm and web_search (crag.py lines 11-14).                      *)

QueryIds == 1..NumQueries

ConcChunks == {<<[content |-> "chunkA"]>>,
               <<[content |-> "chunkB"], [content |-> "chunkA"]>>}

ConcResponses ==
    {[kind |-> "transport_error", relevance_score |-> None,
      relevance_label |-> None, confidence |-> None],
     [kind |-> "json_object", relevance_score |-> Some(JNum(92)),
      relevance_label |-> Some("relevant"), confidence |-> Some(JNum(90))],
     [kind |-> "json_object", relevance_score |-> Some(JNum(45)),
      relevance_label |-> Some("ambiguous"), confidence |-> None],
     [kind |-> "json_object", relevance_score |-> Some(JNum(20)),
      relevance_label |-> Some("irrelevant"), confidence |-> Some(JNum(90))]}

ConcWebResults ==
    {<< >>, <<[title |-> "titleA", content |-> "webA"]>>,
     <<[title |-> "titleB", content |-> "webB"],
       [title |-> "titleA", content |-> "webA"]>>}

NewQuery(chunks) ==
    [chunks |-> chunks, pc |-> "RETRIEVED", llm_response |-> None,
     evaluation |-> None, web_results |-> None, used_web_search |-> FALSE,
     crag_result |-> None, prompt_context |-> << >>, answered |-> FALSE,
     raised |-> ""]

\* the fields the pipeline does not read stay at their defaults
ConcSettings ==
    {cfg \in Settings : cfg.crag_relevance_threshold = 70
                         /\ cfg.top_k_results = 5}

ConcInit ==
    /\ settings \in ConcSettings
    /\ PipelineIdle
    /\ RetrievalIdle
    /\ queries \in [QueryIds -> {NewQuery(c) : c \in ConcChunks}]

ConcFrame == UNCHANGED <<settings, pipeline_vars, retrieval_vars>>

\* execute_crag line 95 of query q
QEvaluate(q) ==
    /\ queries[q].pc = "RETRIEVED"
    /\ \E resp \in ConcResponses :
          queries' = [queries EXCEPT
              ![q].llm_response = Some(resp),
              ![q].evaluation = Some(evaluate_relevance(resp, settings).value),
              ![q].pc = "EVALUATED"]
    /\ ConcFrame

\* execute_crag lines 103-106 of query q, the search returns
QWebSearchReturns(q) ==
    /\ queries[q].pc = "EVALUATED"
    /\ queries[q].evaluation[1].needs_web_search
    /\ \E results \in ConcWebResults :
          queries' = [queries EXCEPT
              ![q].web_results = Some(results),
              ![q].used_web_search = TRUE,
              ![q].pc = "WEB_SEARCHED"]
    /\ ConcFrame

\* execute_crag line 105 of query q, the search raises
QWebSearchRaises(q) ==
    /\ queries[q].pc = "EVALUATED"
    /\ queries[q].evaluation[1].needs_web_search
    /\ queries' = [queries EXCEPT ![q].raised = "web_search",
                                  ![q].pc = "RAISED"]
    /\ ConcFrame

\* execute_crag line 103 of query q, the condition is false
QSkipWebSearch(q) ==
    /\ queries[q].pc = "EVALUATED"
    /\ ~queries[q].evaluation[1].needs_web_search
    /\ queries' = [queries EXCEPT ![q].pc = "SKIPPED"]
    /\ ConcFrame

\* mutant: the evaluation is kept on the service (self.evaluation), so the
\* result is built from whichever query evaluated last
QReturnResult_SharedEvaluation(q) ==
    /\ queries[q].pc \in {"WEB_SEARCHED", "SKIPPED"}
    /\ \E r \in QueryIds :
          /\ queries[r].evaluation # None
          /\ queries' = [queries EXCEPT
                 ![q].crag_result =
                     Some([used_web_search |-> queries[q].used_web_search,
                           evaluation |-> queries[r].evaluation[1],
                           retrieved_chunks |-> queries[q].chunks,
                           web_results |-> queries[q].web_results]),
                 ![q].pc = "RESULT"]
    /\ ConcFrame

\* execute_crag lines 108-113 of query q
QReturnResult(q) ==
    /\ queries[q].pc \in {"WEB_SEARCHED", "SKIPPED"}
    /\ queries' = [queries EXCEPT
           ![q].crag_result =
               Some([used_web_search |-> queries[q].used_web_search,
                     evaluation |-> queries[q].evaluation[1],
                     retrieved_chunks |-> queries[q].chunks,
                     web_results |-> queries[q].web_results]),
           ![q].pc = "RESULT"]
    /\ ConcFrame

\* generate_answer_with_crag of query q, llm.generate returns
QGenerateAnswerReturns(q) ==
    /\ queries[q].pc = "RESULT"
    /\ queries' = [queries EXCEPT
           ![q].prompt_context = BuildContext(queries[q].crag_result[1]),
           ![q].answered = TRUE,
           ![q].pc = "ANSWERED"]
    /\ ConcFrame

\* generate_answer_with_crag of query q, llm.generate raises
QGenerateAnswerRaises(q) ==
    /\ queries[q].pc = "RESULT"
    /\ queries' = [queries EXCEPT
           ![q].prompt_context = BuildContext(queries[q].crag_result[1]),
           ![q].raised = "llm_generate",
           ![q].pc = "RAISED"]
    /\ ConcFrame

ConcNext ==
    \E q \in QueryIds :
        \/ QEvaluate(q)
        \/ QWebSearchReturns(q)
        \/ QWebSearchRaises(q)
        \/ QSkipWebSearch(q)
        \/ QReturnResult(q)
        \/ QGenerateAnswerReturns(q)
        \/ QGenerateAnswerRaises(q)

ConcSpec == ConcInit /\ [][ConcNext]_vars

TypeOK ==
    /\ settings \in Settings
    /\ pc \in {"RETRIEVED", "EVALUATED", "WEB_SEARCHED", "SKIPPED", "RESULT",
               "ANSWERED", "RAISED"}
    /\ raised \in {"", "web_search", "llm_generate"}
    /\ Len(generate_calls) <= 1
    /\ Len(search_calls) <= 1

----------------------------------------------------------------------------
(* Properties *)

Evaluated == evaluation # None

\* the grader's object carried both a label and a score, and the try block
\* returned
ParsedWithLabelAndScore ==
    /\ Evaluated
    /\ eval_return = "try"
    /\ llm_response[1].relevance_label # None
    /\ llm_response[1].relevance_score # None

GraderLabel == llm_response[1].relevance_label[1]
GraderScore == llm_response[1].relevance_score[1].n

\* C1: for a grader output that parses with label L and score S,
\* needs_web_search is false for "relevant", true for "irrelevant", and for
\* "ambiguous" true exactly when S is strictly below ambiguous_threshold
\* (at threshold 0.5: 0.45 gives true, 0.5 and 0.6 give false).
C1_RoutingRule ==
    ParsedWithLabelAndScore =>
        /\ GraderLabel = "relevant" => evaluation[1].needs_web_search = FALSE
        /\ GraderLabel = "irrelevant" => evaluation[1].needs_web_search = TRUE
        /\ GraderLabel = "ambiguous" =>
              (evaluation[1].needs_web_search
                  <=> GraderScore < settings.crag_ambiguous_threshold)
        /\ (GraderLabel = "ambiguous" /\ settings.crag_ambiguous_threshold = 50)
              => /\ GraderScore = 45 => evaluation[1].needs_web_search = TRUE
                 /\ GraderScore = 50 => evaluation[1].needs_web_search = FALSE
                 /\ GraderScore = 60 => evaluation[1].needs_web_search = FALSE

C1_Witness ==
    /\ ParsedWithLabelAndScore
    /\ GraderLabel = "ambiguous"
    /\ GraderScore = 50
    /\ settings.crag_ambiguous_threshold = 50
    /\ evaluation[1].needs_web_search = FALSE

\* the grader call failed or its output is not a JSON object
GraderFailed ==
    /\ llm_response # None
    /\ llm_response[1].kind \in {"transport_error", "not_json", "json_array"}

\* C2: evaluate_relevance never raises; when the grader call fails or its
\* output cannot be parsed it returns exactly the fallback evaluation
\* (score 0.5, label "ambiguous", confidence 0.5, needs_web_search true).
C2_FallbackNeverRaises ==
    /\ pc = "EVALUATED" => (Evaluated /\ raised = "")
    /\ GraderFailed => eval_return = "except"
    /\ eval_return = "except" =>
          /\ evaluation[1].relevance_score = 50
          /\ evaluation[1].relevance_label = "ambiguous"
          /\ evaluation[1].confidence = 50
          /\ evaluation[1].needs_web_search = TRUE

C2_Witness ==
    /\ pc = "EVALUATED"
    /\ llm_response[1].kind = "transport_error"
    /\ evaluation[1].needs_web_search = TRUE
    /\ raised = ""

\* the routing rule applied to the fields of the returned evaluation
RuleOfEvaluation ==
    \/ evaluation[1].relevance_label = "irrelevant"
    \/ /\ evaluation[1].relevance_label = "ambiguous"
       /\ evaluation[1].relevance_score < settings.crag_ambiguous_threshold

\* C3 as stated: on every path, the failure fallback included,
\* needs_web_search equals the routing rule applied to the returned label
\* and score.
C3_Original ==
    Evaluated => (evaluation[1].needs_web_search <=> RuleOfEvaluation)

\* C3: on every path that returns from the try block (all fields present or
\* some defaulted) needs_web_search equals the routing rule applied to the
\* returned label and score; the failure fallback sets it to true with label
\* "ambiguous" and score 0.5, whatever the threshold.
C3_RuleOnParsedPaths ==
    /\ (Evaluated /\ eval_return = "try") =>
          (evaluation[1].needs_web_search <=> RuleOfEvaluation)
    /\ (Evaluated /\ eval_return = "except") =>
          /\ evaluation[1].needs_web_search = TRUE
          /\ (RuleOfEvaluation <=> settings.crag_ambiguous_threshold > 50)

C3_Witness ==
    /\ Evaluated
    /\ eval_return = "try"
    /\ llm_response[1].relevance_label = None
    /\ llm_response[1].relevance_score # None
    /\ evaluation[1].relevance_score = 45
    /\ settings.crag_ambiguous_threshold = 50
    /\ evaluation[1].needs_web_search = TRUE

Returned == crag_result # None

\* C4: every result returned by execute_crag has
\* used_web_search = evaluation.needs_web_search, and web_results is present
\* exactly when used_web_search is true, whatever list the search returned.
C4_ResultInvariant ==
    Returned =>
        /\ crag_result[1].used_web_search
              <=> crag_result[1].evaluation.needs_web_search
        /\ crag_result[1].web_results # None
              <=> crag_result[1].used_web_search

C4_Witness ==
    /\ Returned
    /\ crag_result[1].used_web_search
    /\ crag_result[1].web_results = Some(<< >>)

\* C5: from EVALUATED the pipeline goes to WEB_SEARCHED exactly when
\* evaluation.needs_web_search is true, the search then being invoked once
\* with max_results 3; when needs_web_search is false it goes to SKIPPED and
\* the search is never invoked.
C5_RouteStep ==
    pc = "EVALUATED" =>
        /\ pc' = "WEB_SEARCHED" =>
              /\ evaluation[1].needs_web_search
              /\ Len(search_calls') = 1
              /\ search_calls'[1].max_results = 3
        /\ evaluation[1].needs_web_search =>
              /\ pc' \in {"WEB_SEARCHED", "RAISED"}
              /\ Len(search_calls') = 1
              /\ search_calls'[1].max_results = 3
        /\ ~evaluation[1].needs_web_search =>
              /\ pc' = "SKIPPED"
              /\ search_calls' = << >>

C5_Routing ==
    /\ [][C5_RouteStep]_vars
    /\ []((Evaluated /\ ~evaluation[1].needs_web_search)
             => search_calls = << >>)
    /\ [](pc = "WEB_SEARCHED" => evaluation[1].needs_web_search)

C5_Witness ==
    /\ pc = "WEB_SEARCHED"
    /\ evaluation[1].relevance_label = "ambiguous"
    /\ Len(search_calls) = 1
    /\ search_calls[1].max_results = 3

\* generate_answer_with_crag has assembled its context and called llm.generate
Synthesized == Len(generate_calls) > 0

\* the contents of the parts of one kind, in the order of the context
ContentsOfKind(ctx, kind) ==
    LET sel == SelectSeq(ctx, LAMBDA part : part.kind = kind)
    IN [i \in 1..Len(sel) |-> sel[i].content]

TitlesOfKind(ctx, kind) ==
    LET sel == SelectSeq(ctx, LAMBDA part : part.kind = kind)
    IN [i \in 1..Len(sel) |-> sel[i].title]

ContentsOf(items) == [i \in 1..Len(items) |-> items[i].content]
TitlesOf(items) == [i \in 1..Len(items) |-> items[i].title]

ChunkTexts == {c.content : c \in ChunkPool}
WebTexts == {w.content : w \in WebPool}

\* the web results of the returned result, the empty list when absent
ResultWeb ==
    IF crag_result[1].web_results = None THEN << >>
    ELSE crag_result[1].web_results[1]

\* every part that carries chunk text comes before every part with web text
ChunksFirst(ctx) ==
    \A i, j \in 1..Len(ctx) :
        (ctx[i].content \in ChunkTexts /\ ctx[j].content \in WebTexts) => i < j

\* C6: for a result labelled "irrelevant" the assembled context holds only
\* the web results, in order, and no chunk text, even with chunks present;
\* without web results the context is empty.
C6_IrrelevantWebOnly ==
    (Synthesized /\ crag_result[1].evaluation.relevance_label = "irrelevant")
    =>  /\ \A i \in 1..Len(prompt_context) :
              /\ prompt_context[i].content \notin ChunkTexts
              /\ prompt_context[i].kind \in {"header", "Source"}
        /\ ContentsOfKind(prompt_context, "Source") = ContentsOf(ResultWeb)
        /\ TitlesOfKind(prompt_context, "Source") = TitlesOf(ResultWeb)
        /\ ResultWeb = << >> => prompt_context = << >>

C6_Witness ==
    /\ Synthesized
    /\ crag_result[1].evaluation.relevance_label = "irrelevant"
    /\ Len(crag_result[1].retrieved_chunks) = 2
    /\ ResultWeb = << >>
    /\ prompt_context = << >>

\* C7: for a result labelled "relevant" or "ambiguous" the context holds all
\* retrieved chunks in their original order; the web results follow all
\* chunk text exactly when used_web_search is true, and no web text appears
\* when it is false.
C7_ChunksThenWeb ==
    (Synthesized
     /\ crag_result[1].evaluation.relevance_label \in {"relevant", "ambiguous"})
    =>  /\ ContentsOfKind(prompt_context, "Document")
              = ContentsOf(crag_result[1].retrieved_chunks)
        /\ ChunksFirst(prompt_context)
        /\ crag_result[1].used_web_search =>
              ContentsOfKind(prompt_context, "Web Source") = ContentsOf(ResultWeb)
        /\ ~crag_result[1].used_web_search =>
              \A i \in 1..Len(prompt_context) :
                  prompt_context[i].content \notin WebTexts

C7_Witness ==
    /\ Synthesized
    /\ crag_result[1].evaluation.relevance_label = "ambiguous"
    /\ crag_result[1].used_web_search
    /\ ContentsOf(crag_result[1].retrieved_chunks) = <<"chunkB", "chunkA">>
    /\ ContentsOfKind(prompt_context, "Document") = <<"chunkB", "chunkA">>
    /\ ContentsOfKind(prompt_context, "Web Source") = <<"webB", "webA", "webB">>

NoWebText(ctx) == \A i \in 1..Len(ctx) : ctx[i].content \notin WebTexts

ChunksOnly(ctx) ==
    /\ ContentsOfKind(ctx, "Document") = ContentsOf(query_chunks)
    /\ NoWebText(ctx)

\* C8: end to end the sources of the final context follow from the grader
\* output: "relevant" gives no web search and chunks only; "ambiguous" with a
\* score below ambiguous_threshold gives one web search and a context with
\* the chunks first and the returned web results after them; "ambiguous"
\* with a score at or above the threshold gives no web search and chunks only.
C8_EndToEnd ==
    (Synthesized /\ ParsedWithLabelAndScore) =>
        /\ GraderLabel = "relevant" =>
              (search_calls = << >> /\ ChunksOnly(prompt_context))
        /\ (GraderLabel = "ambiguous"
            /\ GraderScore < settings.crag_ambiguous_threshold) =>
              /\ Len(search_calls) = 1
              /\ ContentsOfKind(prompt_context, "Document")
                    = ContentsOf(query_chunks)
              /\ ContentsOfKind(prompt_context, "Web Source")
                    = ContentsOf(web_results[1])
              /\ ChunksFirst(prompt_context)
        /\ (GraderLabel = "ambiguous"
            /\ GraderScore >= settings.crag_ambiguous_threshold) =>
              (search_calls = << >> /\ ChunksOnly(prompt_context))

C8_Witness ==
    /\ Synthesized
    /\ ParsedWithLabelAndScore
    /\ GraderLabel = "ambiguous"
    /\ GraderScore = 60
    /\ settings.crag_ambiguous_threshold = 50
    /\ search_calls = << >>
    /\ ContentsOfKind(prompt_context, "Document") = <<"chunkA", "chunkB">>

SearchFailed ==
    \E i \in 1..Len(search_calls) : search_calls[i].outcome = "raised"

\* C9: when the web search fails inside execute_crag the failure reaches the
\* caller and no result is returned, neither partial nor degraded to "no web
\* results"; nothing runs after it.
C9_SearchFailurePropagates ==
    SearchFailed =>
        /\ raised = "web_search"
        /\ pc = "RAISED"
        /\ crag_result = None
        /\ web_results = None
        /\ generate_calls = << >>
        /\ answer = None

C9_Witness ==
    /\ SearchFailed
    /\ raised = "web_search"
    /\ evaluation[1].relevance_label = "irrelevant"
    /\ crag_result = None

\* C10: when llm.generate fails during answer generation the failure reaches
\* the caller, no answer is returned and the call is not repeated; when it
\* succeeds the generated text is returned as it is.
C10_SynthesisFailurePropagates ==
    Synthesized =>
        /\ Len(generate_calls) = 1
        /\ generate_calls[1].outcome = "raised" =>
              (raised = "llm_generate" /\ pc = "RAISED" /\ answer = None)
        /\ generate_calls[1].outcome = "returned" =>
              (answer = Some(generate_calls[1].text) /\ raised = ""
               /\ pc = "ANSWERED")

C10_Witness ==
    /\ Synthesized
    /\ generate_calls[1].outcome = "raised"
    /\ raised = "llm_generate"
    /\ answer = None

\* C11: every evaluation returned by evaluate_relevance, whatever the grader
\* returned, has relevance_score in [0.0, 1.0], relevance_label one of
\* relevant, ambiguous, irrelevant, and confidence in [0.0, 1.0].
C11_EvaluationRanges ==
    Evaluated =>
        /\ evaluation[1].relevance_score >= 0
        /\ evaluation[1].relevance_score <= 100
        /\ evaluation[1].relevance_label \in {"relevant", "ambiguous", "irrelevant"}
        /\ evaluation[1].confidence >= 0
        /\ evaluation[1].confidence <= 100

C11_Witness ==
    /\ Evaluated
    /\ llm_response[1].kind = "json_object"
    /\ llm_response[1].relevance_score = Some(JNum(150))
    /\ llm_response[1].relevance_label = Some("relevant")
    /\ evaluation[1].relevance_score = 50
    /\ evaluation[1].relevance_label = "ambiguous"

\* C12: when the grader's object parses but lacks fields, each missing field
\* is defaulted on its own (score 0.5, label "ambiguous", confidence 0.7),
\* the fields present are kept, and the routing rule is applied to the
\* resulting values; this is not the failure fallback (confidence 0.5,
\* needs_web_search true).
C12_PartialDefaults ==
    (Evaluated /\ eval_return = "try") =>
        /\ evaluation[1].relevance_score =
              (IF llm_response[1].relevance_score = None THEN 50
               ELSE llm_response[1].relevance_score[1].n)
        /\ evaluation[1].relevance_label =
              (IF llm_response[1].relevance_label = None THEN "ambiguous"
               ELSE llm_response[1].relevance_label[1])
        /\ evaluation[1].confidence =
              (IF llm_response[1].confidence = None THEN 70
               ELSE llm_response[1].confidence[1].n)
        /\ evaluation[1].needs_web_search <=> RuleOfEvaluation
        /\ (\/ llm_response[1].relevance_score = None
            \/ llm_response[1].relevance_label = None
            \/ llm_response[1].confidence = None)
              => llm_response[1].kind = "json_object"

C12_Witness ==
    /\ Evaluated
    /\ eval_return = "try"
    /\ llm_response[1].relevance_score = None
    /\ llm_response[1].relevance_label = Some("ambiguous")
    /\ llm_response[1].confidence = None
    /\ settings.crag_ambiguous_threshold = 50
    /\ evaluation[1].confidence = 70
    /\ evaluation[1].needs_web_search = FALSE

\* calls made to the three collaborators so far
CallsMade == grader_calls + Len(search_calls) + Len(generate_calls)

C13_CallOrder ==
    /\ grader_calls <= 1
    /\ pc # "RETRIEVED" => grader_calls = 1
    /\ Len(search_calls) <= 1
    /\ search_calls # << >> => (grader_calls = 1 /\ Evaluated)
    /\ Len(generate_calls) <= 1
    /\ generate_calls # << >> => (Returned /\ pc \in {"ANSWERED", "RAISED"})
    /\ pc = "ANSWERED" => Len(generate_calls) = 1

C13_OneCallPerStep ==
    /\ grader_calls' >= grader_calls
    /\ Len(search_calls') >= Len(search_calls)
    /\ Len(generate_calls') >= Len(generate_calls)
    /\ CallsMade' <= CallsMade + 1

\* C13: one query is one sequential pass: the grader is called exactly once
\* and before any web search, the web search at most once and only after the
\* evaluation, the completion once per synthesis and only on a returned
\* result; no call is repeated and no step makes two calls.
C13_SinglePass == [](C13_CallOrder) /\ [][C13_OneCallPerStep]_vars

C13_Witness ==
    /\ pc = "ANSWERED"
    /\ grader_calls = 1
    /\ Len(search_calls) = 1
    /\ Len(generate_calls) = 1

GradingFailed == Evaluated /\ eval_return = "except"

C14_FailureState ==
    GradingFailed =>
        /\ GraderFailed => eval_return = "except"
        /\ raised # "" => raised = "web_search" \/ Returned
        /\ pc # "SKIPPED"
        /\ pc \in {"WEB_SEARCHED", "RESULT", "ANSWERED"} => Len(search_calls) = 1
        /\ Returned => crag_result[1].used_web_search = TRUE

C14_FailureStep ==
    (GradingFailed /\ pc = "EVALUATED") =>
        /\ pc' \in {"WEB_SEARCHED", "RAISED"}
        /\ Len(search_calls') = 1

\* C14: a grading failure never stops the pipeline: execute_crag goes on to
\* the routing decision, which is to call the web search (WEB_SEARCHED, never
\* SKIPPED), and a returned result has used_web_search = true.
C14_GradingFailureRoutesToSearch ==
    /\ [](C14_FailureState)
    /\ [](GraderFailed => eval_return = "except")
    /\ [][C14_FailureStep]_vars
    /\ (GradingFailed ~> search_calls # << >>)

C14_Witness ==
    /\ GraderFailed
    /\ llm_response[1].kind = "not_json"
    /\ settings.crag_ambiguous_threshold = 50
    /\ Returned
    /\ crag_result[1].used_web_search = TRUE

\* the transitions of the state machine of execute_crag, followed by the
\* synthesis call
PipelineEdges ==
    {<<"RETRIEVED", "EVALUATED">>, <<"EVALUATED", "WEB_SEARCHED">>,
     <<"EVALUATED", "SKIPPED">>, <<"EVALUATED", "RAISED">>,
     <<"WEB_SEARCHED", "RESULT">>, <<"SKIPPED", "RESULT">>,
     <<"RESULT", "ANSWERED">>, <<"RESULT", "RAISED">>}

C15_OnPath == pc' # pc => <<pc, pc'>> \in PipelineEdges

ExecuteCragEnded == Returned \/ raised = "web_search"

\* C15: when every collaborator call returns or fails, execute_crag
\* terminates: it follows RETRIEVED -> EVALUATED -> {WEB_SEARCHED | SKIPPED}
\* -> RESULT and eventually returns its result, or ends by propagating a
\* web-search failure; it does not stay in an intermediate state.
C15_ExecuteCragTerminates ==
    /\ [][C15_OnPath]_vars
    /\ <>ExecuteCragEnded
    /\ (pc \in {"RETRIEVED", "EVALUATED", "WEB_SEARCHED", "SKIPPED"}
          ~> pc \in {"RESULT", "ANSWERED", "RAISED"})

C15_Witness ==
    /\ pc = "RESULT"
    /\ Returned
    /\ search_calls = << >>
    /\ raised = ""

\* the same settings with another crag_relevance_threshold
WithRelevanceThreshold(rt) == [settings EXCEPT !.crag_relevance_threshold = rt]

\* C17: the routing decision does not depend on relevance_threshold: the same
\* grader output under the same ambiguous_threshold gives the same
\* needs_web_search for every relevance_threshold; a "relevant" label with a
\* score below relevance_threshold still gives no web search.
C17_RelevanceThresholdUnused ==
    Evaluated =>
        /\ \A rt \in RelevanceThresholds :
              evaluate_relevance(llm_response[1],
                                 WithRelevanceThreshold(rt)).value.needs_web_search
                 = evaluation[1].needs_web_search
        /\ (eval_return = "try"
            /\ evaluation[1].relevance_label = "relevant"
            /\ evaluation[1].relevance_score < settings.crag_relevance_threshold)
              => evaluation[1].needs_web_search = FALSE

C17_Witness ==
    /\ Evaluated
    /\ eval_return = "try"
    /\ evaluation[1].relevance_label = "relevant"
    /\ evaluation[1].relevance_score = 60
    /\ settings.crag_relevance_threshold = 70
    /\ evaluation[1].needs_web_search = FALSE

C18_ResultCarriesChunks ==
    Returned =>
        /\ crag_result[1].retrieved_chunks = query_chunks
        /\ crag_result[1].evaluation = evaluation[1]
        /\ crag_result[1].web_results = web_results

C18_InputsKept ==
    /\ query_chunks' = query_chunks
    /\ Evaluated => evaluation' = evaluation
    /\ web_results # None => web_results' = web_results
    /\ Returned => crag_result' = crag_result

\* C18: the pipeline never changes its inputs: the result carries exactly the
\* chunk sequence the caller supplied (same elements and order, also for an
\* "irrelevant" label), and no step changes the chunks, the web results, the
\* evaluation or a returned result.
C18_InputsUnchanged == [](C18_ResultCarriesChunks) /\ [][C18_InputsKept]_vars

C18_Witness ==
    /\ Returned
    /\ crag_result[1].evaluation.relevance_label = "irrelevant"
    /\ query_chunks = <<[content |-> "chunkB"], [content |-> "chunkA"]>>
    /\ crag_result[1].retrieved_chunks = query_chunks
    /\ Synthesized

\* the top_k the caller asked for, the configured one when none was given
RequestedTopK ==
    IF top_k_arg = None THEN settings.top_k_results ELSE top_k_arg[1]

\* C19: retrieve asks the vector search for exactly top_k results, the
\* configured top_k_results when the caller gives none, and returns one chunk
\* per search result in the order of the search (at most top_k, none added,
\* dropped or reordered).
C19_RetrieveTopK ==
    /\ search_results # None => search_requests = <<RequestedTopK>>
    /\ retrieved # None =>
          /\ retrieve_pc = "returned"
          /\ Len(retrieved[1]) = Len(search_results[1])
          /\ Len(retrieved[1]) <= RequestedTopK
          /\ \A i \in 1..Len(retrieved[1]) :
                /\ retrieved[1][i].content = search_results[1][i].content
                /\ retrieved[1][i].score = search_results[1][i].score
                /\ retrieved[1][i].content = vector_index[i].content

C19_Witness ==
    /\ retrieve_pc = "returned"
    /\ top_k_arg = None
    /\ settings.top_k_results = 2
    /\ Len(vector_index) = 3
    /\ search_requests = <<2>>
    /\ Len(retrieved[1]) = 2
    /\ retrieved[1][1].content = "chunkB"
    /\ retrieved[1][2].content = "chunkA"

\* what query q was given: its chunks and the responses of its collaborators
QueryInputs(q) ==
    <<queries[q].chunks, queries[q].llm_response, queries[q].web_results,
      queries[q].raised>>

\* the result of query q is made of its own evaluation, chunks and web results
C16_OwnFields(q) ==
    /\ queries[q].crag_result # None =>
          /\ queries[q].crag_result[1].evaluation = queries[q].evaluation[1]
          /\ queries[q].crag_result[1].retrieved_chunks = queries[q].chunks
          /\ queries[q].crag_result[1].web_results = queries[q].web_results
          /\ queries[q].crag_result[1].used_web_search
                = queries[q].used_web_search
    /\ queries[q].evaluation # None =>
          (queries[q].llm_response[1].kind = "transport_error"
              => queries[q].evaluation[1].confidence = 50)

\* two queries at the same position with the same inputs have the same
\* evaluation, result and context, whatever the other queries did
C16_Determined(q1, q2) ==
    (queries[q1].pc = queries[q2].pc /\ QueryInputs(q1) = QueryInputs(q2)) =>
        /\ queries[q1].evaluation = queries[q2].evaluation
        /\ queries[q1].crag_result = queries[q2].crag_result
        /\ queries[q1].prompt_context = queries[q2].prompt_context

\* a step belongs to one query and writes neither another query nor settings
C16_StepIsLocal ==
    /\ settings' = settings
    /\ \A q1, q2 \in QueryIds :
          (q1 # q2 /\ queries'[q1] # queries[q1]) => queries'[q2] = queries[q2]

\* C16: when several queries run concurrently, under every interleaving each
\* query's result and context depend only on its own inputs and collaborator
\* responses; no state is shared between queries and the configuration is
\* never written after initialization.
C16_QueriesIsolated ==
    /\ [](\A q \in QueryIds : C16_OwnFields(q))
    /\ [](\A q1, q2 \in QueryIds : C16_Determined(q1, q2))
    /\ [][C16_StepIsLocal]_vars

C16_Witness ==
    /\ queries[1].pc = "ANSWERED"
    /\ queries[1].crag_result[1].evaluation.relevance_label = "irrelevant"
    /\ queries[1].crag_result[1].used_web_search
    /\ queries[2].pc = "RESULT"
    /\ queries[2].crag_result[1].evaluation.relevance_label = "relevant"
    /\ ~queries[2].crag_result[1].used_web_search
    /\ queries[2].chunks # queries[1].chunks

====
